---- MODULE Spec2Model ----
(***************************************************************************)
(* Model of the C driver of the Caliptra MCU emulator                      *)
(* (src/emulator/cbinding/emulator.c, POSIX build).                        *)
(*                                                                         *)
(* The process is one control stack: the bottom frame is main, and every   *)
(* handled signal pushes a frame that runs signal_handler to completion    *)
(* before the frame below resumes.  Only the top frame takes steps.  Each  *)
(* frame has a program counter named after the statement it is about to    *)
(* execute and a return label for the one-level calls of enable_raw_mode   *)
(* and disable_raw_mode.                                                   *)
(*                                                                         *)
(* The engine (emulator_* functions) is the Rust library behind            *)
(* emulator_cbinding.h; its results are chosen nondeterministically.       *)
(*                                                                         *)
(* Three specifications share the actions: Spec (FairSpec with fairness)   *)
(* is a run of the emulator; ParseSpec is the option loop on command lines *)
(* with string-valued options (--hw-revision, memory-layout overrides);    *)
(* TtySpec is enable_raw_mode and disable_raw_mode called directly.        *)
(*                                                                         *)
(* Environment assumptions:                                                *)
(*  - signal() has BSD semantics (glibc): the handler stays installed and  *)
(*    the signal being handled is blocked while its handler runs;          *)
(*  - tcsetattr() of the captured original mode succeeds on a terminal on  *)
(*    which tcgetattr() and tcsetattr() of the raw mode succeeded;         *)
(*  - exit() called while exit() is already running runs the atexit        *)
(*    handlers not yet started and then ends the process (glibc).          *)
(***************************************************************************)
EXTENDS Integers, Sequences, FiniteSets, TLC

\* Bounds of the model.
MaxSignals == 1      \* signals delivered in one run
MaxSteps == 2        \* engine steps that return Continue in one run
MaxInput == 1        \* characters pending on the console at once
MaxNumLen == 3       \* length of a memory-layout override string
MaxRevLen == 6       \* length of a --hw-revision string
MaxCalls == 4        \* calls in a sequence of enable/disable_raw_mode calls

\* Program constants.
PollInterval == 100  \* step_count % 100 == 0
CtrlC == 3
Backspace == 127
AsciiBackspace == 8

Signals == {"SIGINT", "SIGTERM", "SIGHUP", "SIGQUIT"}
TermSignals == Signals \ {"SIGINT"}
Chars == {CtrlC, Backspace, 97}   \* Ctrl-C, Backspace, and the letter a
StepActions == {"Continue", "Break", "ExitSuccess", "ExitFailure"}
StopActions == StepActions \ {"Continue"}
I3cPorts == {0, 5000}
RequiredPaths == {"rom_path", "firmware_path", "caliptra_rom_path",
                  "caliptra_firmware_path", "soc_manifest_path"}

----------------------------------------------------------------------------
\* Strings are sequences of one-character strings.  A 32-bit unsigned value is
\* the pair <<high half, low half>> of its 16-bit halves, a 64-bit unsigned
\* long the sequence of its four 16-bit limbs, lowest first.

Half == 65536
U32(v) == <<v \div Half, v % Half>>

\* -1 in a memory-layout field of the configuration: use the default.
NoOverride == <<-1>>

DigitChars == <<"0", "1", "2", "3", "4", "5", "6", "7", "8", "9",
                "a", "b", "c", "d", "e", "f">>
UpperChars == <<"A", "B", "C", "D", "E", "F">>

\* The value of a character as a digit; 99 when it is no digit of any base.
DigitValue(ch) ==
    IF \E i \in 1..16 : DigitChars[i] = ch
    THEN (CHOOSE i \in 1..16 : DigitChars[i] = ch) - 1
    ELSE IF \E i \in 1..6 : UpperChars[i] = ch
         THEN (CHOOSE i \in 1..6 : UpperChars[i] = ch) + 9
         ELSE 99

IsSpace(ch) == ch \in {" ", "\t", "\n"}

RECURSIVE SkipSpace(_)
SkipSpace(s) == IF s # <<>> /\ IsSpace(Head(s)) THEN SkipSpace(Tail(s)) ELSE s

ULongZero == <<0, 0, 0, 0>>
ULongMax == <<Half - 1, Half - 1, Half - 1, Half - 1>>

\* limbs * base + d; over is set when the result does not fit 64 bits.
RECURSIVE MulAdd(_, _, _, _)
MulAdd(limbs, base, carry, i) ==
    IF i > Len(limbs) THEN [val |-> limbs, over |-> carry > 0]
    ELSE LET t == limbs[i] * base + carry
         IN MulAdd([limbs EXCEPT ![i] = t % Half], base, t \div Half, i + 1)

\* The unsigned long 2^64 - limbs (0 for 0).
RECURSIVE Negate(_, _, _)
Negate(limbs, borrow, i) ==
    IF i > Len(limbs) THEN limbs
    ELSE LET t == Half - limbs[i] - borrow
         IN Negate([limbs EXCEPT ![i] = t % Half], IF t = Half THEN 0 ELSE 1, i + 1)

\* The longest prefix of s made of digits of the base, accumulated.
RECURSIVE Accumulate(_, _, _)
Accumulate(s, base, acc) ==
    IF s = <<>> \/ DigitValue(Head(s)) >= base THEN [acc EXCEPT !.rest = s]
    ELSE LET m == MulAdd(acc.val, base, DigitValue(Head(s)), 1)
         IN Accumulate(Tail(s), base,
                       [val |-> m.val, over |-> acc.over \/ m.over,
                        digits |-> acc.digits + 1, rest |-> acc.rest])

HasSign(s) == s # <<>> /\ Head(s) \in {"+", "-"}
HasHexPrefix(s) ==
    Len(s) >= 3 /\ s[1] = "0" /\ s[2] \in {"x", "X"} /\ DigitValue(s[3]) < 16

\* strtoul(str, &end, base) for base 10 or 16: white space, an optional sign,
\* for base 16 an optional 0x or 0X, then digits; ULONG_MAX on overflow, the
\* negated value after a minus sign, 0 without any digit.
StripSign(t) == IF HasSign(t) THEN Tail(t) ELSE t
StripPrefix(u, base) == IF base = 16 /\ HasHexPrefix(u) THEN SubSeq(u, 3, Len(u)) ELSE u
Digits(v, base) ==
    Accumulate(v, base, [val |-> ULongZero, over |-> FALSE, digits |-> 0, rest |-> v])
StrtoulResult(str, minus, a) ==
    [val |-> IF a.over THEN ULongMax ELSE IF minus THEN Negate(a.val, 0, 1) ELSE a.val,
     digits |-> a.digits,
     rest |-> IF a.digits = 0 THEN str ELSE a.rest]
StrtoulSigned(str, t, base) ==
    StrtoulResult(str, HasSign(t) /\ Head(t) = "-", Digits(StripPrefix(StripSign(t), base), base))
Strtoul(str, base) == StrtoulSigned(str, SkipSpace(str), base)

\* (unsigned int) of an unsigned long
ToUnsignedInt(limbs) == <<limbs[2], limbs[1]>>

\* Mutant: only the lower-case prefix selects base 16.
UsesHex_LowerCaseOnly(str) == Len(str) >= 2 /\ str[1] = "0" /\ str[2] = "x"

\* strncmp(str, "0x", 2) == 0 || strncmp(str, "0X", 2) == 0
UsesHex(str) == Len(str) >= 2 /\ str[1] = "0" /\ str[2] \in {"x", "X"}

parse_hex_or_decimal(str) ==
    IF UsesHex(str)
    THEN ToUnsignedInt(Strtoul(str, 16).val)
    ELSE ToUnsignedInt(Strtoul(str, 10).val)

\* One %u conversion of sscanf: white space, an optional sign, decimal digits;
\* a matching failure when there is no digit.
Conversion(r) == [ok |-> r.digits > 0, val |-> ToUnsignedInt(r.val), rest |-> r.rest]
ScanUnsigned(s) == Conversion(Strtoul(s, 10))

\* sscanf(optarg, "%u.%u.%u", ...): the values assigned, in order.  The dots
\* of the format match a dot only; whatever follows the third number is left
\* unread.  The result of sscanf is the number of values (EOF for none).
RECURSIVE ScanFields(_, _)
AfterConversion(a, n) ==
    IF ~a.ok THEN <<>>
    ELSE IF n = 1 \/ a.rest = <<>> \/ Head(a.rest) # "." THEN <<a.val>>
    ELSE <<a.val>> \o ScanFields(Tail(a.rest), n - 1)
ScanFields(s, n) == AfterConversion(ScanUnsigned(s), n)
SscanfRevision(s) == ScanFields(s, 3)

OverrideFields == {"rom_offset", "rom_size"}

VARIABLES
    stack,              \* control stack of frames [sig, pc, ret]
    status,             \* "running" | "exited" | "killed"
    exit_code,          \* status passed to exit(), -1 before
    config,             \* struct CEmulatorConfig (the fields the driver reads)
    parse_done,         \* getopt_long returned -1
    argv,               \* the string-valued options still to be parsed
    optarg,             \* char *optarg of the last such option
    optc,               \* int c: the last option, recorded for the options
                        \* with a string value and for -h, -V and '?'
    handlers,           \* signals with signal_handler installed
    atexit_state,       \* "none" | "registered" | "called"
    isatty,             \* stdin is a terminal
    termios,            \* the terminal's mode: "cooked" | "raw" | "zero"
    original_termios,   \* static struct termios original_termios
    terminal_raw_mode,  \* static int terminal_raw_mode
    stdin_pending,      \* unread console characters
    emulator_size,      \* size_t emulator_size (0: not queried)
    emulator_alignment, \* size_t emulator_alignment (0: not queried)
    memory,             \* "null" | "allocated" | "freed"
    emu,                \* engine: "uninit" | "ready" | "destroyed"
    exit_requested,     \* engine: cooperative exit requested
    uart_buffer,        \* "unset" before malloc | "null" | "allocated" | "freed"
    step_count,         \* int step_count
    input_char,         \* char input_char (0: none)
    action,             \* enum CStepAction action ("none" before a step)
    gdb_result,         \* enum EmulatorError gdb_result ("none" before the call)
    \* history variables
    sig_count,          \* signals delivered so far
    last_call,          \* the last engine call and the state it was made in
    calls,              \* calls of each engine function so far (counted to 2)
    destroy_count,      \* calls of emulator_destroy
    free_count,         \* calls of free(memory)
    restores,           \* writes of original_termios in this raw period
    raw_periods,        \* raw-enabled periods: terminal_raw_mode set to 1
    steps_after_exit,   \* emulator_step calls made after the exit request
    exit_info,          \* who called exit(), the raw flag at that call, and
                        \* the statement of main that ended main
    sigint_in_loop,     \* a SIGINT was delivered inside the free-run loop
    call_log,           \* direct calls of enable/disable_raw_mode, each with
                        \* the terminal state it started in
    trace,              \* what the current iteration of the free-run loop has
                        \* done so far; whether Ctrl-C was read; whether the
                        \* output of the last step is still to be drained;
                        \* the steps and sends made after the loop had to
                        \* end; the calls of free(uart_buffer); the final
                        \* drains of main
    watch               \* output between a SIGINT in the raw loop and restore,
                        \* whether the usage text was printed, and the mode
                        \* of the terminal when a fatal error was reported

argVars == <<argv, optarg, optc>>
cfgVars == <<config, parse_done, argVars>>
sigVars == <<handlers, atexit_state>>
ttyVars == <<termios, original_termios, terminal_raw_mode, restores, raw_periods>>
memVars == <<emulator_size, emulator_alignment, memory, free_count>>
engVars == <<emu, exit_requested, last_call, calls, destroy_count, steps_after_exit>>
loopVars == <<uart_buffer, step_count, input_char, action, gdb_result>>
exitVars == <<status, exit_code, exit_info>>
obsVars == <<isatty, sig_count, sigint_in_loop, call_log>>
envVars == <<obsVars, trace>>

vars == <<stack, cfgVars, sigVars, ttyVars, stdin_pending, memVars, engVars,
          loopVars, exitVars, envVars, watch>>

----------------------------------------------------------------------------
\* Control stack.

Top == stack[Len(stack)]
Running == status = "running"
At(l) == Running /\ Top.pc = l
WhoAmI == IF Len(stack) = 1 THEN "main" ELSE "handler"

Goto(l) == stack' = [stack EXCEPT ![Len(stack)].pc = l]
Call(l, r) == stack' = [stack EXCEPT ![Len(stack)] = [Top EXCEPT !.pc = l, !.ret = r]]
Return == stack' = [stack EXCEPT ![Len(stack)] = [Top EXCEPT !.pc = Top.ret, !.ret = "none"]]

\* Statements of the free-run loop body (while (1) { ... }).
LoopPcs == {"fr_loop", "fr_read", "fr_rx_ready", "fr_send", "fr_step",
            "fr_drain", "fr_switch"}

\* An output to stdout or stderr.
Printed == IF watch.state = "pending" /\ Len(watch.outs) < 3
           THEN [watch EXCEPT !.outs = Append(@, WhoAmI)]
           ELSE watch
Output == watch' = Printed

\* The message of a fatal error (fprintf(stderr, ...) on a path that gives up).
Diagnostic ==
    watch' = [Printed EXCEPT !.diag = IF termios = "raw" THEN "raw" ELSE "restored"]

\* print_usage(argv[0]), alone or after an error message
PrintUsage == watch' = [Printed EXCEPT !.usage = TRUE]

\* A statement of the loop body adds what it did to the iteration's record.
Event(ev, arg) == [ev |-> ev, arg |-> arg]
Logged(events) == trace' = [trace EXCEPT !.iter = @ \o events]

\* The loop has read Ctrl-C or has got a stop action from emulator_step.
LoopEnded == trace.ctrl_c \/ action \in StopActions
Late == IF LoopEnded /\ trace.late < 2 THEN trace.late + 1 ELSE trace.late

\* The functions of emulator_cbinding.h that the driver calls.
EngineOps == {"get_size", "get_alignment", "init", "start_i3c_controller",
              "is_gdb_mode", "get_gdb_port", "run_gdb_server", "uart_rx_ready",
              "send_uart_char", "step", "get_uart_output_streaming",
              "destroy", "trigger_exit"}

\* A call of an engine function.
EngineCall(op) ==
    /\ last_call' = [op |-> op, emu |-> emu, mem |-> memory,
                     raw |-> terminal_raw_mode, by |-> Top.sig]
    /\ calls' = [calls EXCEPT ![op] = IF @ < 2 THEN @ + 1 ELSE @]

\* exit(code), also the return of main: the atexit handlers run next.
Exit(code) ==
    /\ Goto("exit_handlers")
    /\ exit_code' = code
    /\ exit_info' = [caller |-> Top.sig, raw |-> terminal_raw_mode,
                     main |-> IF Len(stack) = 1 THEN Top.pc ELSE exit_info.main]
    /\ UNCHANGED status

----------------------------------------------------------------------------
InitData ==
    /\ status = "running"
    /\ exit_code = -1
    /\ config = [rom_path |-> "NULL", firmware_path |-> "NULL",
                 caliptra_rom_path |-> "NULL", caliptra_firmware_path |-> "NULL",
                 soc_manifest_path |-> "NULL", i3c_port |-> 0, stdin_uart |-> 1,
                 hw_revision_major |-> U32(2), hw_revision_minor |-> U32(0),
                 hw_revision_patch |-> U32(0),
                 rom_offset |-> NoOverride, rom_size |-> NoOverride]
    /\ parse_done = FALSE
    /\ optarg = <<>>
    /\ optc = "none"
    /\ handlers = {}
    /\ atexit_state = "none"
    /\ termios = "cooked"
    /\ original_termios = "zero"
    /\ terminal_raw_mode = 0
    /\ stdin_pending = <<>>
    /\ emulator_size = 0
    /\ emulator_alignment = 0
    /\ memory = "null"
    /\ emu = "uninit"
    /\ exit_requested = FALSE
    /\ uart_buffer = "unset"
    /\ step_count = 0
    /\ input_char = 0
    /\ action = "none"
    /\ gdb_result = "none"
    /\ sig_count = 0
    /\ last_call = [op |-> "none", emu |-> "uninit", mem |-> "null",
                    raw |-> 0, by |-> "none"]
    /\ calls = [op \in EngineOps |-> 0]
    /\ destroy_count = 0
    /\ free_count = 0
    /\ restores = 0
    /\ raw_periods = 0
    /\ steps_after_exit = 0
    /\ exit_info = [caller |-> "none", raw |-> 0, main |-> "none"]
    /\ sigint_in_loop = FALSE
    /\ call_log = <<>>
    /\ trace = [iter |-> <<>>, ctrl_c |-> FALSE, undrained |-> FALSE, late |-> 0,
                uart_frees |-> 0, final_drains |-> 0]
    /\ watch = [state |-> "idle", outs |-> <<>>, usage |-> FALSE,
                diag |-> "none"]

InitProgram ==
    /\ stack = <<[sig |-> "none", pc |-> "getopt", ret |-> "none"]>>
    /\ InitData

\* A run of the emulator: the string-valued options are left out of the
\* command line.
Init ==
    /\ InitProgram
    /\ isatty \in BOOLEAN
    /\ argv = <<>>

----------------------------------------------------------------------------
\* Argument parsing: one getopt_long call and the switch on its result.

GetoptPath(field) ==
    /\ At("getopt")
    /\ config' = [config EXCEPT ![field] = "path"]
    /\ UNCHANGED <<stack, parse_done, argVars, sigVars, ttyVars, stdin_pending,
                   memVars, engVars, loopVars, exitVars, envVars, watch>>

GetoptI3cPort(port) ==
    /\ At("getopt")
    /\ config' = [config EXCEPT !.i3c_port = port]
    /\ UNCHANGED <<stack, parse_done, argVars, sigVars, ttyVars, stdin_pending,
                   memVars, engVars, loopVars, exitVars, envVars, watch>>

GetoptNoStdinUart ==
    /\ At("getopt")
    /\ config' = [config EXCEPT !.stdin_uart = 0]
    /\ UNCHANGED <<stack, parse_done, argVars, sigVars, ttyVars, stdin_pending,
                   memVars, engVars, loopVars, exitVars, envVars, watch>>

\* Mutant: after -h or -V main goes on to validate the configuration.
GetoptHelpVersion_Validates ==
    /\ At("getopt")
    /\ \E flag \in {"h", "V"} :
          /\ optc' = flag
          /\ IF flag = "h" THEN PrintUsage ELSE Output
    /\ parse_done' = TRUE
    /\ Goto("check_required")
    /\ UNCHANGED <<config, argv, optarg, sigVars, ttyVars, stdin_pending,
                   memVars, engVars, loopVars, exitVars, envVars>>

\* -h prints the usage, -V the version; both return 0.
GetoptHelpVersion ==
    /\ At("getopt")
    /\ \E flag \in {"h", "V"} :
          /\ optc' = flag
          /\ IF flag = "h" THEN PrintUsage ELSE Output
    /\ Exit(0)
    /\ UNCHANGED <<config, parse_done, argv, optarg, sigVars, ttyVars,
                   stdin_pending, memVars, engVars, loopVars, envVars>>

\* Mutant: the error of getopt_long is ignored and the loop continues.
GetoptError_Ignored ==
    /\ At("getopt")
    /\ optc' = "?"
    /\ Output
    /\ UNCHANGED <<stack, config, parse_done, argv, optarg, sigVars, ttyVars,
                   stdin_pending, memVars, engVars, loopVars, exitVars, envVars>>

\* '?': an unrecognized option or a missing value; getopt_long printed the error.
GetoptError ==
    /\ At("getopt")
    /\ optc' = "?"
    /\ Output
    /\ Exit(1)
    /\ UNCHANGED <<config, parse_done, argv, optarg, sigVars, ttyVars,
                   stdin_pending, memVars, engVars, loopVars, envVars>>

\* sscanf stores each value as it converts it.
StoreRevision(cfg, vals) ==
    [cfg EXCEPT !.hw_revision_major = IF Len(vals) >= 1 THEN vals[1] ELSE @,
                !.hw_revision_minor = IF Len(vals) >= 2 THEN vals[2] ELSE @,
                !.hw_revision_patch = IF Len(vals) >= 3 THEN vals[3] ELSE @]

\* case 139: --hw-revision
GetoptHwRevision ==
    /\ At("getopt")
    /\ argv # <<>>
    /\ Head(argv).opt = "hw_revision"
    /\ argv' = Tail(argv)
    /\ optarg' = Head(argv).arg
    /\ optc' = "hw_revision"
    /\ config' = StoreRevision(config, SscanfRevision(Head(argv).arg))
    /\ IF Len(SscanfRevision(Head(argv).arg)) # 3
       THEN Output /\ Exit(1)
       ELSE UNCHANGED <<stack, exitVars, watch>>
    /\ UNCHANGED <<parse_done, sigVars, ttyVars, stdin_pending, memVars, engVars,
                   loopVars, envVars>>

\* case 140 to 164: a memory-layout override.
GetoptOverride(field) ==
    /\ At("getopt")
    /\ argv # <<>>
    /\ Head(argv).opt = field
    /\ argv' = Tail(argv)
    /\ optarg' = Head(argv).arg
    /\ optc' = field
    /\ config' = [config EXCEPT ![field] = parse_hex_or_decimal(Head(argv).arg)]
    /\ UNCHANGED <<stack, parse_done, sigVars, ttyVars, stdin_pending, memVars,
                   engVars, loopVars, exitVars, envVars, watch>>

\* getopt_long returns -1 when no argument is left.
GetoptEnd ==
    /\ At("getopt")
    /\ argv = <<>>
    /\ parse_done' = TRUE
    /\ Goto("check_required")
    /\ UNCHANGED <<config, argVars, sigVars, ttyVars, stdin_pending, memVars,
                   engVars, loopVars, exitVars, envVars, watch>>

\* Mutant: the validation pass forgets the SoC manifest.
RequiredMissing_ForgetsManifest(cfg) ==
    \/ cfg.rom_path = "NULL"
    \/ cfg.firmware_path = "NULL"
    \/ cfg.caliptra_rom_path = "NULL"
    \/ cfg.caliptra_firmware_path = "NULL"

RequiredMissing(cfg) ==
    \/ cfg.rom_path = "NULL"
    \/ cfg.firmware_path = "NULL"
    \/ cfg.caliptra_rom_path = "NULL"
    \/ cfg.caliptra_firmware_path = "NULL"
    \/ cfg.soc_manifest_path = "NULL"

CheckRequired ==
    /\ At("check_required")
    /\ IF RequiredMissing(config)
       THEN PrintUsage /\ Exit(1)
       ELSE Goto("signal_sigint") /\ UNCHANGED <<exitVars, watch>>
    /\ UNCHANGED <<cfgVars, sigVars, ttyVars, stdin_pending, memVars, engVars,
                   loopVars, envVars>>

----------------------------------------------------------------------------
\* Signal handlers and the atexit handler are installed one call at a time.

NextInstall(sig) ==
    CASE sig = "SIGINT" -> "signal_sigterm"
      [] sig = "SIGTERM" -> "signal_sighup"
      [] sig = "SIGHUP" -> "signal_sigquit"
      [] sig = "SIGQUIT" -> "atexit"

InstallPc(sig) ==
    CASE sig = "SIGINT" -> "signal_sigint"
      [] sig = "SIGTERM" -> "signal_sigterm"
      [] sig = "SIGHUP" -> "signal_sighup"
      [] sig = "SIGQUIT" -> "signal_sigquit"

InstallHandler(sig) ==
    /\ At(InstallPc(sig))
    /\ handlers' = handlers \cup {sig}
    /\ Goto(NextInstall(sig))
    /\ UNCHANGED <<cfgVars, atexit_state, ttyVars, stdin_pending, memVars,
                   engVars, loopVars, exitVars, envVars, watch>>

RegisterAtexit ==
    /\ At("atexit")
    /\ atexit_state' = "registered"
    /\ Goto("get_size")
    /\ UNCHANGED <<cfgVars, handlers, ttyVars, stdin_pending, memVars, engVars,
                   loopVars, exitVars, envVars, watch>>

----------------------------------------------------------------------------
\* Allocation and initialization of the engine.

GetSize ==
    /\ At("get_size")
    /\ EngineCall("get_size")
    /\ emulator_size' \in {64}
    /\ Goto("get_alignment")
    /\ UNCHANGED <<cfgVars, sigVars, ttyVars, stdin_pending, emulator_alignment,
                   memory, free_count, emu, exit_requested, destroy_count,
                   steps_after_exit, loopVars, exitVars, envVars, watch>>

GetAlignment ==
    /\ At("get_alignment")
    /\ EngineCall("get_alignment")
    /\ emulator_alignment' \in {8}
    /\ Goto("aligned_alloc")
    /\ UNCHANGED <<cfgVars, sigVars, ttyVars, stdin_pending, emulator_size,
                   memory, free_count, emu, exit_requested, destroy_count,
                   steps_after_exit, loopVars, exitVars, envVars, watch>>

\* aligned_alloc, and the message that follows either outcome.
AlignedAlloc(ok) ==
    /\ At("aligned_alloc")
    /\ IF ok
       THEN Output /\ memory' = "allocated" /\ Goto("init") /\ UNCHANGED exitVars
       ELSE Diagnostic /\ Exit(1) /\ UNCHANGED memory
    /\ UNCHANGED <<cfgVars, sigVars, ttyVars, stdin_pending, emulator_size,
                   emulator_alignment, free_count, engVars, loopVars, envVars>>

EmulatorInit(ok) ==
    /\ At("init")
    /\ EngineCall("init")
    /\ IF ok
       THEN emu' = "ready" /\ Goto("i3c") /\ UNCHANGED watch
       ELSE Diagnostic /\ Goto("init_fail_free") /\ UNCHANGED emu
    /\ UNCHANGED <<cfgVars, sigVars, ttyVars, stdin_pending, memVars,
                   exit_requested, destroy_count, steps_after_exit, loopVars,
                   exitVars, envVars>>

\* free(memory); return 1;
FreeMemory(l) ==
    /\ At(l)
    /\ memory' = "freed"
    /\ free_count' = free_count + 1

InitFailFree ==
    /\ FreeMemory("init_fail_free")
    /\ Exit(1)
    /\ UNCHANGED <<cfgVars, sigVars, ttyVars, stdin_pending, emulator_size,
                   emulator_alignment, engVars, loopVars, envVars, watch>>

\* Mutant: the I3C controller is started whether or not a port was given.
I3cRequested_Always(cfg) == TRUE

I3cRequested(cfg) == cfg.i3c_port # 0

I3cCheck ==
    /\ At("i3c")
    /\ IF I3cRequested(config)
       THEN Output /\ Goto("i3c_start")
       ELSE Goto("gdb_check") /\ UNCHANGED watch
    /\ UNCHANGED <<cfgVars, sigVars, ttyVars, stdin_pending, memVars, engVars,
                   loopVars, exitVars, envVars>>

StartI3c(ok) ==
    /\ At("i3c_start")
    /\ EngineCall("start_i3c_controller")
    /\ IF ok
       THEN Goto("gdb_check") /\ UNCHANGED watch
       ELSE Diagnostic /\ Goto("i3c_fail_destroy")
    /\ UNCHANGED <<cfgVars, sigVars, ttyVars, stdin_pending, memVars, emu,
                   exit_requested, destroy_count, steps_after_exit, loopVars,
                   exitVars, envVars>>

\* emulator_destroy(handle)
Destroy(l, next) ==
    /\ At(l)
    /\ EngineCall("destroy")
    /\ emu' = "destroyed"
    /\ destroy_count' = destroy_count + 1
    /\ Goto(next)

I3cFailDestroy ==
    /\ Destroy("i3c_fail_destroy", "i3c_fail_free")
    /\ UNCHANGED <<cfgVars, sigVars, ttyVars, stdin_pending, memVars,
                   exit_requested, steps_after_exit, loopVars, exitVars,
                   envVars, watch>>

I3cFailFree ==
    /\ FreeMemory("i3c_fail_free")
    /\ Exit(1)
    /\ UNCHANGED <<cfgVars, sigVars, ttyVars, stdin_pending, emulator_size,
                   emulator_alignment, engVars, loopVars, envVars, watch>>

----------------------------------------------------------------------------
\* Mode dispatch.

\* global_emulator = memory; printf; emulator_is_gdb_mode(global_emulator)
GdbCheck(gdb) ==
    /\ At("gdb_check")
    /\ Output
    /\ EngineCall("is_gdb_mode")
    /\ Goto(IF gdb THEN "gdb_port" ELSE "fr_enter")
    /\ UNCHANGED <<cfgVars, sigVars, ttyVars, stdin_pending, memVars, emu,
                   exit_requested, destroy_count, steps_after_exit, loopVars,
                   exitVars, envVars>>

GdbPort ==
    /\ At("gdb_port")
    /\ EngineCall("get_gdb_port")
    /\ Output
    /\ Goto("gdb_run")
    /\ UNCHANGED <<cfgVars, sigVars, ttyVars, stdin_pending, memVars, emu,
                   exit_requested, destroy_count, steps_after_exit, loopVars,
                   exitVars, envVars>>

\* Mutant: a failed debug session ends the process with exit code 1.
GdbRun_FailureIsFatal(ok) ==
    /\ At("gdb_run")
    /\ EngineCall("run_gdb_server")
    /\ gdb_result' = IF ok THEN "Success" ELSE "Error"
    /\ Output
    /\ IF ok THEN Goto("final_drain") /\ UNCHANGED exitVars ELSE Exit(1)
    /\ UNCHANGED <<cfgVars, sigVars, ttyVars, stdin_pending, memVars, emu,
                   exit_requested, destroy_count, steps_after_exit, uart_buffer,
                   step_count, input_char, action, envVars>>

\* emulator_run_gdb_server blocks until the debugger disconnects; either
\* result is only reported.
GdbRun(ok) ==
    /\ At("gdb_run")
    /\ EngineCall("run_gdb_server")
    /\ gdb_result' = IF ok THEN "Success" ELSE "Error"
    /\ Output
    /\ Goto("final_drain")
    /\ UNCHANGED <<cfgVars, sigVars, ttyVars, stdin_pending, memVars, emu,
                   exit_requested, destroy_count, steps_after_exit, uart_buffer,
                   step_count, input_char, action, exitVars, envVars>>

----------------------------------------------------------------------------
\* enable_raw_mode()

\* Mutant: enable_raw_mode does not test the raw flag.
EnableCheck_NoGuard ==
    /\ At("erm_check")
    /\ Goto("erm_tcgetattr")
    /\ UNCHANGED <<cfgVars, sigVars, ttyVars, stdin_pending, memVars, engVars,
                   loopVars, exitVars, envVars, watch>>

EnableCheck ==
    /\ At("erm_check")
    /\ IF terminal_raw_mode # 0 THEN Return ELSE Goto("erm_tcgetattr")
    /\ UNCHANGED <<cfgVars, sigVars, ttyVars, stdin_pending, memVars, engVars,
                   loopVars, exitVars, envVars, watch>>

\* tcgetattr(STDIN_FILENO, &original_termios) fails when stdin is no terminal.
EnableTcgetattr ==
    /\ At("erm_tcgetattr")
    /\ IF isatty
       THEN original_termios' = termios /\ Goto("erm_tcsetattr")
       ELSE Return /\ UNCHANGED original_termios
    /\ UNCHANGED <<cfgVars, sigVars, termios, terminal_raw_mode, restores,
                   raw_periods, stdin_pending, memVars, engVars, loopVars,
                   exitVars, envVars, watch>>

\* raw = original_termios with echo, canonical mode and signal keys off and
\* VMIN = VTIME = 0; tcsetattr(STDIN_FILENO, TCSAFLUSH, &raw) discards the
\* unread input.
EnableTcsetattr(ok) ==
    /\ At("erm_tcsetattr")
    /\ IF ok
       THEN /\ termios' = "raw"
            /\ stdin_pending' = <<>>
            /\ restores' = 0
            /\ Goto("erm_set")
       ELSE Return /\ UNCHANGED <<termios, stdin_pending, restores>>
    /\ UNCHANGED <<cfgVars, sigVars, original_termios, terminal_raw_mode,
                   raw_periods, memVars, engVars, loopVars, exitVars, envVars, watch>>

EnableSet ==
    /\ At("erm_set")
    /\ terminal_raw_mode' = 1
    /\ raw_periods' = raw_periods + 1
    /\ Return
    /\ UNCHANGED <<cfgVars, sigVars, termios, original_termios, restores,
                   stdin_pending, memVars, engVars, loopVars,
                   exitVars, envVars, watch>>

----------------------------------------------------------------------------
\* disable_raw_mode(), called by free_run, main, cleanup_on_exit and
\* signal_handler.

\* Mutant: the test of the raw flag is inverted.
DisableGuard_Inverted(flag) == flag = 0

DisableGuard(flag) == flag # 0

DisableCheck ==
    /\ At("drm_check")
    /\ IF DisableGuard(terminal_raw_mode) THEN Goto("drm_tcsetattr") ELSE Return
    /\ UNCHANGED <<cfgVars, sigVars, ttyVars, stdin_pending, memVars, engVars,
                   loopVars, exitVars, envVars, watch>>

\* tcsetattr(STDIN_FILENO, TCSAFLUSH, &original_termios)
DisableTcsetattr ==
    /\ At("drm_tcsetattr")
    /\ termios' = IF isatty THEN original_termios ELSE termios
    /\ stdin_pending' = <<>>
    /\ restores' = IF restores < 3 THEN restores + 1 ELSE restores
    /\ watch' = IF watch.state = "pending"
                THEN [watch EXCEPT !.state = "restored"] ELSE watch
    /\ Goto("drm_clear")
    /\ UNCHANGED <<cfgVars, sigVars, original_termios, terminal_raw_mode,
                   raw_periods, memVars, engVars, loopVars, exitVars, envVars>>

\* terminal_raw_mode = 0 (stored whether or not tcsetattr succeeded)
DisableClear ==
    /\ At("drm_clear")
    /\ terminal_raw_mode' = 0
    /\ Return
    /\ UNCHANGED <<cfgVars, sigVars, termios, original_termios, restores,
                   raw_periods, stdin_pending, memVars, engVars, loopVars,
                   exitVars, envVars, watch>>

----------------------------------------------------------------------------
\* free_run(emulator)

\* the two printf of the entry, then enable_raw_mode()
FreeRunEnter ==
    /\ At("fr_enter")
    /\ Output
    /\ Call("erm_check", "fr_malloc")
    /\ UNCHANGED <<cfgVars, sigVars, ttyVars, stdin_pending, memVars, engVars,
                   loopVars, exitVars, envVars>>

\* Mutant: the result of malloc is not tested.
FreeRunMalloc_Unchecked(ok) ==
    /\ At("fr_malloc")
    /\ Output
    /\ uart_buffer' = IF ok THEN "allocated" ELSE "null"
    /\ step_count' = 0
    /\ Goto("fr_loop")
    /\ UNCHANGED <<cfgVars, sigVars, ttyVars, stdin_pending, memVars, engVars,
                   input_char, action, gdb_result, exitVars, envVars>>

\* Mutant: after a failed malloc the function returns without
\* disable_raw_mode().
FreeRunMalloc_NoRestore(ok) ==
    /\ At("fr_malloc")
    /\ IF ok
       THEN /\ Output
            /\ uart_buffer' = "allocated"
            /\ step_count' = 0
            /\ Goto("fr_loop")
       ELSE /\ Diagnostic
            /\ uart_buffer' = "null"
            /\ Goto("final_drain")
            /\ UNCHANGED step_count
    /\ UNCHANGED <<cfgVars, sigVars, ttyVars, stdin_pending, memVars, engVars,
                   input_char, action, gdb_result, exitVars, envVars>>

\* malloc(uart_buffer_size) and the message of either outcome; on failure
\* disable_raw_mode() and return.
FreeRunMalloc(ok) ==
    /\ At("fr_malloc")
    /\ IF ok
       THEN /\ Output
            /\ uart_buffer' = "allocated"
            /\ step_count' = 0
            /\ Goto("fr_loop")
       ELSE /\ Diagnostic
            /\ uart_buffer' = "null"
            /\ Call("drm_check", "final_drain")
            /\ UNCHANGED step_count
    /\ UNCHANGED <<cfgVars, sigVars, ttyVars, stdin_pending, memVars, engVars,
                   input_char, action, gdb_result, exitVars, envVars>>

\* What free_run hands back to main: the function is declared void and its
\* return statements carry no value.
FreeRunResult == "void"

PollsConsole(n) == n % PollInterval = 0

\* Mutant: the console is never polled.
FreeRunLoop_NeverPolls ==
    /\ At("fr_loop")
    /\ Goto("fr_step")
    /\ UNCHANGED <<cfgVars, sigVars, ttyVars, stdin_pending, memVars, engVars,
                   loopVars, exitVars, envVars, watch>>

FreeRunLoop ==
    /\ At("fr_loop")
    /\ Goto(IF PollsConsole(step_count) THEN "fr_read" ELSE "fr_step")
    /\ UNCHANGED <<cfgVars, sigVars, ttyVars, stdin_pending, memVars, engVars,
                   loopVars, exitVars, envVars, watch>>

\* What read(STDIN_FILENO, &input_char, 1) can return now (0: nothing read).
\* A terminal in raw mode (VMIN = VTIME = 0) never blocks; in any other mode
\* the call blocks until a character is pending.  A file or a pipe yields a
\* character or the end of the file.
ReadResults ==
    IF isatty
    THEN IF stdin_pending # <<>> THEN {Head(stdin_pending)}
         ELSE IF termios = "raw" THEN {0} ELSE {}
    ELSE Chars \cup {0}

Normalize(c) == IF c = Backspace THEN AsciiBackspace ELSE c

\* Mutant: Ctrl-C is a character like any other.
FreeRunRead_CtrlCForwarded(c) ==
    /\ At("fr_read")
    /\ c \in ReadResults
    /\ stdin_pending' = IF c # 0 /\ isatty THEN Tail(stdin_pending) ELSE stdin_pending
    /\ IF c = 0
       THEN Goto("fr_step") /\ UNCHANGED input_char
       ELSE Goto("fr_rx_ready") /\ input_char' = Normalize(c)
    /\ trace' = [trace EXCEPT !.iter = Append(@, Event("read", c)),
                              !.ctrl_c = (@ \/ c = CtrlC)]
    /\ UNCHANGED <<cfgVars, sigVars, ttyVars, memVars, engVars, uart_buffer,
                   step_count, action, gdb_result, exitVars, obsVars, watch>>

FreeRunRead(c) ==
    /\ At("fr_read")
    /\ c \in ReadResults
    /\ stdin_pending' = IF c # 0 /\ isatty THEN Tail(stdin_pending) ELSE stdin_pending
    /\ IF c = 0
       THEN Goto("fr_step") /\ UNCHANGED input_char
       ELSE IF c = CtrlC
            THEN Call("drm_check", "fr_free") /\ input_char' = 0
            ELSE Goto("fr_rx_ready") /\ input_char' = Normalize(c)
    /\ trace' = [trace EXCEPT !.iter = Append(@, Event("read", c)),
                              !.ctrl_c = (@ \/ c = CtrlC)]
    /\ UNCHANGED <<cfgVars, sigVars, ttyVars, memVars, engVars, uart_buffer,
                   step_count, action, gdb_result, exitVars, obsVars, watch>>

\* Mutant: the character is sent whether or not the receiver is ready.
FreeRunRxReady_Ignored(ready) ==
    /\ At("fr_rx_ready")
    /\ EngineCall("uart_rx_ready")
    /\ Goto("fr_send")
    /\ Logged(<<Event("rx_ready", IF ready THEN 1 ELSE 0)>>)
    /\ UNCHANGED <<cfgVars, sigVars, ttyVars, stdin_pending, memVars, emu,
                   exit_requested, destroy_count, steps_after_exit, uart_buffer,
                   step_count, input_char, action, gdb_result, exitVars, obsVars,
                   watch>>

\* input_char is local to the polling block: its value is dead (0) once the
\* block is left.
FreeRunRxReady(ready) ==
    /\ At("fr_rx_ready")
    /\ EngineCall("uart_rx_ready")
    /\ IF ready
       THEN Goto("fr_send") /\ UNCHANGED input_char
       ELSE Goto("fr_step") /\ input_char' = 0
    /\ Logged(<<Event("rx_ready", IF ready THEN 1 ELSE 0)>>)
    /\ UNCHANGED <<cfgVars, sigVars, ttyVars, stdin_pending, memVars, emu,
                   exit_requested, destroy_count, steps_after_exit, uart_buffer,
                   step_count, action, gdb_result, exitVars, obsVars, watch>>

FreeRunSend ==
    /\ At("fr_send")
    /\ EngineCall("send_uart_char")
    /\ input_char' = 0
    /\ Goto("fr_step")
    /\ trace' = [trace EXCEPT !.iter = Append(@, Event("send", input_char)),
                              !.late = Late]
    /\ UNCHANGED <<cfgVars, sigVars, ttyVars, stdin_pending, memVars, emu,
                   exit_requested, destroy_count, steps_after_exit, uart_buffer,
                   step_count, action, gdb_result, exitVars, obsVars, watch>>

\* The engine's step: once a cooperative exit has been requested the step
\* returns a stop action.
StepResults ==
    IF exit_requested \/ step_count >= MaxSteps THEN StopActions ELSE StepActions

FreeRunStep(a) ==
    /\ At("fr_step")
    /\ a \in StepResults
    /\ EngineCall("step")
    /\ action' = a
    /\ steps_after_exit' = IF exit_requested /\ steps_after_exit < 2
                           THEN steps_after_exit + 1 ELSE steps_after_exit
    /\ Goto("fr_drain")
    /\ trace' = [trace EXCEPT !.iter = Append(@, Event("step", 0)),
                              !.undrained = TRUE,
                              !.late = Late]
    /\ UNCHANGED <<cfgVars, sigVars, ttyVars, stdin_pending, memVars, emu,
                   exit_requested, destroy_count, uart_buffer, step_count,
                   input_char, gdb_result, exitVars, obsVars, watch>>

\* emulator_get_uart_output_streaming, and the bytes written to stderr
DrainUart(l, next, len) ==
    /\ At(l)
    /\ EngineCall("get_uart_output_streaming")
    /\ IF len > 0 THEN Output ELSE UNCHANGED watch
    /\ Goto(next)

\* Mutant: the drained bytes are not written.
FreeRunDrain_NoFlush(len) ==
    /\ At("fr_drain")
    /\ EngineCall("get_uart_output_streaming")
    /\ Goto("fr_switch")
    /\ trace' = [trace EXCEPT !.iter = Append(@, Event("drain", len)),
                              !.undrained = FALSE]
    /\ UNCHANGED <<cfgVars, sigVars, ttyVars, stdin_pending, memVars, emu,
                   exit_requested, destroy_count, steps_after_exit, loopVars,
                   exitVars, obsVars, watch>>

\* The drain of the loop body; uart_len > 0: fprintf and fflush(stderr).
FreeRunDrain(len) ==
    /\ DrainUart("fr_drain", "fr_switch", len)
    /\ trace' = [trace EXCEPT
                     !.iter = @ \o (IF len > 0
                                    THEN <<Event("drain", len), Event("flush", len)>>
                                    ELSE <<Event("drain", len)>>),
                     !.undrained = FALSE]
    /\ UNCHANGED <<cfgVars, sigVars, ttyVars, stdin_pending, memVars, emu,
                   exit_requested, destroy_count, steps_after_exit, loopVars,
                   exitVars, obsVars>>

\* Mutant: Break is handled like Continue.
StopsLoop_BreakContinues(a) == a \notin {"Continue", "Break"}

StopsLoop(a) == a # "Continue"

\* switch (action): Continue counts the step (and sleeps every 1000th);
\* the other actions print, call disable_raw_mode(), free the buffer, return.
\* Either way the iteration is over.
FreeRunSwitch ==
    /\ At("fr_switch")
    /\ IF StopsLoop(action)
       THEN Output /\ Call("drm_check", "fr_free") /\ UNCHANGED step_count
       ELSE step_count' = step_count + 1 /\ Goto("fr_loop") /\ UNCHANGED watch
    /\ trace' = [trace EXCEPT !.iter = <<>>]
    /\ UNCHANGED <<cfgVars, sigVars, ttyVars, stdin_pending, memVars, engVars,
                   uart_buffer, input_char, action, gdb_result, exitVars,
                   obsVars>>

\* free(uart_buffer); return;  After a break the iteration ends here.
FreeRunFree ==
    /\ At("fr_free")
    /\ uart_buffer' = "freed"
    /\ Goto("final_drain")
    /\ trace' = [trace EXCEPT !.iter = <<>>,
                              !.uart_frees = IF @ < 2 THEN @ + 1 ELSE @]
    /\ UNCHANGED <<cfgVars, sigVars, ttyVars, stdin_pending, memVars, engVars,
                   step_count, input_char, action, gdb_result, exitVars,
                   obsVars, watch>>

----------------------------------------------------------------------------
\* The end of main.

\* Mutant: main goes to the cleanup without the final drain.
FinalDrain_Skipped(len) ==
    /\ At("final_drain")
    /\ Goto("cleanup")
    /\ UNCHANGED <<cfgVars, sigVars, ttyVars, stdin_pending, memVars, engVars,
                   loopVars, exitVars, envVars, watch>>

\* The final check for UART output, after free_run or the debug server.
FinalDrain(len) ==
    /\ DrainUart("final_drain", "cleanup", len)
    /\ trace' = [trace EXCEPT !.final_drains = IF @ < 2 THEN @ + 1 ELSE @]
    /\ UNCHANGED <<cfgVars, sigVars, ttyVars, stdin_pending, memVars, emu,
                   exit_requested, destroy_count, steps_after_exit, loopVars,
                   exitVars, obsVars>>

Cleanup ==
    /\ At("cleanup")
    /\ Call("drm_check", "destroy")
    /\ UNCHANGED <<cfgVars, sigVars, ttyVars, stdin_pending, memVars, engVars,
                   loopVars, exitVars, envVars, watch>>

\* Mutant: main frees the engine memory without destroying the engine.
MainDestroy_Skipped ==
    /\ At("destroy")
    /\ Goto("free_memory")
    /\ UNCHANGED <<cfgVars, sigVars, ttyVars, stdin_pending, memVars, engVars,
                   loopVars, exitVars, envVars, watch>>

MainDestroy ==
    /\ Destroy("destroy", "free_memory")
    /\ UNCHANGED <<cfgVars, sigVars, ttyVars, stdin_pending, memVars,
                   exit_requested, steps_after_exit, loopVars, exitVars,
                   envVars, watch>>

MainFree ==
    /\ FreeMemory("free_memory")
    /\ Goto("main_return")
    /\ UNCHANGED <<cfgVars, sigVars, ttyVars, stdin_pending, emulator_size,
                   emulator_alignment, engVars, loopVars, exitVars, envVars,
                   watch>>

\* printf("Emulator cleaned up\n"); return 0;
MainReturn ==
    /\ At("main_return")
    /\ Output
    /\ Exit(0)
    /\ UNCHANGED <<cfgVars, sigVars, ttyVars, stdin_pending, memVars, engVars,
                   loopVars, envVars>>

----------------------------------------------------------------------------
\* exit(): the atexit handler cleanup_on_exit calls disable_raw_mode().

ExitHandlers ==
    /\ At("exit_handlers")
    /\ IF atexit_state = "registered"
       THEN atexit_state' = "called" /\ Call("drm_check", "exit_final")
       ELSE Goto("exit_final") /\ UNCHANGED atexit_state
    /\ UNCHANGED <<cfgVars, handlers, ttyVars, stdin_pending, memVars, engVars,
                   loopVars, exitVars, envVars, watch>>

ExitFinal ==
    /\ At("exit_final")
    /\ status' = "exited"
    /\ UNCHANGED <<stack, cfgVars, sigVars, ttyVars, stdin_pending, memVars,
                   engVars, loopVars, exit_code, exit_info, envVars, watch>>

----------------------------------------------------------------------------
\* signal_handler(sig)

\* Mutant: the handler does not call disable_raw_mode().
HandlerPrintf_NoRestore ==
    /\ At("sh_printf")
    /\ Output
    /\ Goto("sh_branch")
    /\ UNCHANGED <<cfgVars, sigVars, ttyVars, stdin_pending, memVars, engVars,
                   loopVars, exitVars, envVars>>

\* printf("\nReceived %s, requesting exit...\n"); disable_raw_mode();
HandlerPrintf ==
    /\ At("sh_printf")
    /\ Output
    /\ Call("drm_check", "sh_branch")
    /\ UNCHANGED <<cfgVars, sigVars, ttyVars, stdin_pending, memVars, engVars,
                   loopVars, exitVars, envVars>>

\* Mutants: every signal exits; no signal exits.
ExitsImmediately_All(sig) == TRUE
ExitsImmediately_None(sig) == FALSE

ExitsImmediately(sig) == sig # "SIGINT"

\* if (sig == SIGINT) emulator_trigger_exit(); else exit(1);
HandlerBranch ==
    /\ At("sh_branch")
    /\ IF ExitsImmediately(Top.sig)
       THEN /\ Exit(1)
            /\ UNCHANGED engVars
       ELSE /\ EngineCall("trigger_exit")
            /\ exit_requested' = TRUE
            /\ stack' = SubSeq(stack, 1, Len(stack) - 1)
            /\ UNCHANGED <<emu, destroy_count, steps_after_exit, exitVars>>
    /\ UNCHANGED <<cfgVars, sigVars, ttyVars, stdin_pending, memVars, loopVars,
                   envVars, watch>>

----------------------------------------------------------------------------
\* The environment: signals and key presses.

Blocked(sig) == \E i \in 1..Len(stack) : stack[i].sig = sig

\* SIGTERM, SIGHUP and SIGQUIT take the same branch of the handler, so two of
\* them that are both installed and not blocked differ by their name only: of
\* these the model delivers the one installed first.
InstallOrder == <<"SIGINT", "SIGTERM", "SIGHUP", "SIGQUIT">>
Rank(sig) == CHOOSE i \in 1..Len(InstallOrder) : InstallOrder[i] = sig
Deliverable(sig) ==
    /\ sig \in handlers
    /\ ~Blocked(sig)
    /\ sig \in TermSignals =>
          \A t \in TermSignals :
              (t \in handlers /\ ~Blocked(t)) => Rank(sig) <= Rank(t)

DeliverHandled(sig) ==
    /\ Running
    /\ sig_count < MaxSignals
    /\ Deliverable(sig)
    /\ sig_count' = sig_count + 1
    /\ stack' = Append(stack, [sig |-> sig, pc |-> "sh_printf", ret |-> "none"])
    /\ sigint_in_loop' = (sigint_in_loop \/ (sig = "SIGINT" /\ stack[1].pc \in LoopPcs))
    /\ watch' = IF /\ sig = "SIGINT"
                   /\ Len(stack) = 1
                   /\ stack[1].pc \in LoopPcs
                   /\ terminal_raw_mode = 1
                   /\ termios = "raw"
                   /\ watch.state = "idle"
                THEN [watch EXCEPT !.state = "pending", !.outs = <<>>]
                ELSE watch
    /\ UNCHANGED <<cfgVars, sigVars, ttyVars, stdin_pending, memVars, engVars,
                   loopVars, exitVars, isatty, call_log, trace>>

\* Before its handler is installed a signal has its default action.
DeliverDefault(sig) ==
    /\ Running
    /\ sig_count < MaxSignals
    /\ sig \notin handlers
    /\ sig_count' = sig_count + 1
    /\ status' = "killed"
    /\ UNCHANGED <<stack, cfgVars, sigVars, ttyVars, stdin_pending, memVars,
                   engVars, loopVars, exit_code, exit_info, isatty,
                   sigint_in_loop, call_log, trace, watch>>

\* Only read() observes the pending input, and every tcsetattr(TCSAFLUSH)
\* discards it: a key typed earlier and not discarded is a key typed when the
\* read is about to execute, which is where the model places the key press.
KeyPress(c) ==
    /\ At("fr_read")
    /\ isatty
    /\ Len(stdin_pending) < MaxInput
    /\ stdin_pending' = Append(stdin_pending, c)
    /\ UNCHANGED <<stack, cfgVars, sigVars, ttyVars, memVars, engVars, loopVars,
                   exitVars, envVars, watch>>

----------------------------------------------------------------------------
Program ==
    \/ \E f \in RequiredPaths : GetoptPath(f)
    \/ \E p \in I3cPorts : GetoptI3cPort(p)
    \/ GetoptNoStdinUart
    \/ GetoptHelpVersion
    \/ GetoptError
    \/ GetoptEnd
    \/ CheckRequired
    \/ \E sig \in Signals : InstallHandler(sig)
    \/ RegisterAtexit
    \/ GetSize
    \/ GetAlignment
    \/ \E ok \in BOOLEAN : AlignedAlloc(ok)
    \/ \E ok \in BOOLEAN : EmulatorInit(ok)
    \/ InitFailFree
    \/ I3cCheck
    \/ \E ok \in BOOLEAN : StartI3c(ok)
    \/ I3cFailDestroy
    \/ I3cFailFree
    \/ \E gdb \in BOOLEAN : GdbCheck(gdb)
    \/ GdbPort
    \/ \E ok \in BOOLEAN : GdbRun(ok)
    \/ EnableCheck
    \/ EnableTcgetattr
    \/ \E ok \in BOOLEAN : EnableTcsetattr(ok)
    \/ EnableSet
    \/ DisableCheck
    \/ DisableTcsetattr
    \/ DisableClear
    \/ FreeRunEnter
    \/ \E ok \in BOOLEAN : FreeRunMalloc(ok)
    \/ FreeRunLoop
    \/ \E c \in Chars \cup {0} : FreeRunRead(c)
    \/ \E ready \in BOOLEAN : FreeRunRxReady(ready)
    \/ FreeRunSend
    \/ \E a \in StepActions : FreeRunStep(a)
    \/ \E len \in {0, 1} : FreeRunDrain(len)
    \/ FreeRunSwitch
    \/ FreeRunFree
    \/ \E len \in {0, 1} : FinalDrain(len)
    \/ Cleanup
    \/ MainDestroy
    \/ MainFree
    \/ MainReturn
    \/ ExitHandlers
    \/ ExitFinal
    \/ HandlerPrintf
    \/ HandlerBranch

Environment ==
    \/ \E sig \in Signals : DeliverHandled(sig)
    \/ \E sig \in Signals : DeliverDefault(sig)
    \/ \E c \in Chars : KeyPress(c)

Next == Program \/ Environment

Spec == Init /\ [][Next]_vars

\* The program keeps running while it can take a step; signals and key
\* presses come when the environment sends them.
FairSpec == Spec /\ WF_vars(Program)

----------------------------------------------------------------------------
\* The parsing of the string-valued options, on command lines made of one
\* such option with every string of the bounds below as its value, and on the
\* named command lines.

Strings(chars, n) == UNION {[1..k -> chars] : k \in 0..n}

NumberChars == {"0", "1", "9", "a", "x", "X", "g", "-"}
RevisionChars == {"1", "2", ".", "x", "-"}

NamedNumbers == {<<"0", "x", "4", "0", "0", "0", "0", "0", "0", "0">>,
                 <<"0", "X", "F", "f">>,
                 <<" ", "1", "0">>,
                 <<"4", "2", "9", "4", "9", "6", "7", "2", "9", "6">>}
NamedRevisions == {<<"1", ".", "2", ".", "3", ".", "4">>,
                   <<" ", "1", ".", "2", ".", "3">>,
                   <<"+", "1", ".", "2", ".", "3">>,
                   <<"1", "0", ".", "2", "0", ".", "3", "0">>}

\* --rom-offset 0x40000000 --rom-size 1000
ExampleLine == <<[opt |-> "rom_offset",
                  arg |-> <<"0", "x", "4", "0", "0", "0", "0", "0", "0", "0">>],
                 [opt |-> "rom_size", arg |-> <<"1", "0", "0", "0">>]>>

CommandLines ==
    {<<[opt |-> "hw_revision", arg |-> s]>> :
        s \in Strings(RevisionChars, MaxRevLen) \cup NamedRevisions}
    \cup {<<[opt |-> f, arg |-> s]>> :
        f \in OverrideFields, s \in Strings(NumberChars, MaxNumLen) \cup NamedNumbers}
    \cup {ExampleLine}

ParseInit ==
    /\ InitProgram
    /\ isatty = TRUE
    /\ argv \in CommandLines

ParseNext ==
    \/ GetoptHwRevision
    \/ \E f \in OverrideFields : GetoptOverride(f)
    \/ GetoptEnd
    \/ ExitHandlers
    \/ ExitFinal

ParseSpec == ParseInit /\ [][ParseNext]_vars

----------------------------------------------------------------------------
\* enable_raw_mode and disable_raw_mode called directly, in every sequence of
\* up to MaxCalls calls, on a terminal in its original mode or on a stdin that
\* is no terminal.

TtyState == [termios |-> termios, original_termios |-> original_termios,
             terminal_raw_mode |-> terminal_raw_mode]

TtyInit ==
    /\ stack = <<[sig |-> "none", pc |-> "caller", ret |-> "none"]>>
    /\ InitData
    /\ isatty \in BOOLEAN
    /\ argv = <<>>

CallDirectly(fn, entry) ==
    /\ At("caller")
    /\ Len(call_log) < MaxCalls
    /\ call_log' = Append(call_log, [fn |-> fn, before |-> TtyState])
    /\ Call(entry, "caller")
    /\ UNCHANGED <<cfgVars, sigVars, ttyVars, stdin_pending, memVars, engVars,
                   loopVars, exitVars, isatty, sig_count, sigint_in_loop, trace,
                   watch>>

CallEnable == CallDirectly("enable_raw_mode", "erm_check")
CallDisable == CallDirectly("disable_raw_mode", "drm_check")

TtyNext ==
    \/ CallEnable
    \/ CallDisable
    \/ EnableCheck
    \/ EnableTcgetattr
    \/ \E ok \in BOOLEAN : EnableTcsetattr(ok)
    \/ EnableSet
    \/ DisableCheck
    \/ DisableTcsetattr
    \/ DisableClear

TtySpec == TtyInit /\ [][TtyNext]_vars

----------------------------------------------------------------------------
\* Properties.

MainPc == stack[1].pc
TermPending == \E i \in 1..Len(stack) : stack[i].sig \in TermSignals
AnyRequiredNull == \E f \in RequiredPaths : config[f] = "NULL"

\* C1: whenever the process has terminated through exit() (the return of
\* main or exit() in the signal handler, after the atexit handler), the
\* terminal is back in its original mode.
C1_NoMissedRestoration == status = "exited" => termios = "cooked"

\* C2: in a raw-enabled period the original mode is written back to the
\* terminal exactly once: never twice, and once by the time the process exits.
C2_RestoredExactlyOnce ==
    /\ restores <= 1
    /\ (status = "exited" /\ raw_periods > 0) => restores = 1

\* The engine operations that take the engine handle.
HandleOps == {"start_i3c_controller", "is_gdb_mode", "get_gdb_port",
              "run_gdb_server", "step", "uart_rx_ready", "send_uart_char",
              "get_uart_output_streaming"}

Lifecycle(ops) ==
    /\ last_call.op \in {"get_size", "get_alignment"} =>
          last_call.emu = "uninit" /\ last_call.mem = "null"
    /\ memory # "null" => emulator_size # 0 /\ emulator_alignment # 0
    /\ last_call.op = "init" =>
          last_call.emu = "uninit" /\ last_call.mem = "allocated"
    /\ last_call.op \in ops => last_call.emu = "ready" /\ last_call.mem = "allocated"
    /\ last_call.op = "destroy" => last_call.emu = "ready" /\ last_call.mem = "allocated"
    /\ destroy_count <= 1
    /\ free_count <= 1
    /\ memory = "freed" => emu # "ready"

\* C3 (as amended): the size and alignment queries and the allocation precede
\* emulator_init; every engine operation that takes the handle is called only
\* between a successful emulator_init and emulator_destroy; emulator_destroy
\* is called at most once and never after a failed init; the memory is freed
\* at most once and never while the engine is initialized and not destroyed.
C3_EngineLifecycle == Lifecycle(HandleOps)

\* C3 (original): the same with emulator_trigger_exit among the operations
\* that are called only between emulator_init and emulator_destroy.
C3_LifecycleWithTriggerExit == Lifecycle(HandleOps \cup {"trigger_exit"})

C3_Witness ==
    /\ status = "exited"
    /\ destroy_count = 1
    /\ free_count = 1
    /\ last_call.op = "trigger_exit"
    /\ last_call.emu = "destroyed"

MainFrozen ==
    /\ TermPending'
    /\ stack'[1] = stack[1]
    /\ destroy_count' = destroy_count
    /\ free_count' = free_count
    /\ memory' = memory
    /\ emu' = emu
    /\ (last_call' # last_call => last_call'.op = "trigger_exit")

C8_LoopStopsAfterSigint ==
    watch.state # "idle" ~> (TermPending \/ (status = "exited" /\ destroy_count = 1))

\* C9: when parsing ended without error and one of the five required paths
\* is unset, main exits with code 1 and no engine operation is ever called.
C9_MissingRequiredPath ==
    (parse_done /\ AnyRequiredNull) =>
        /\ MainPc \in {"check_required", "exit_handlers", "exit_final"}
        /\ last_call.op = "none"
        /\ emulator_size = 0
        /\ emulator_alignment = 0
        /\ memory = "null"
        /\ emu = "uninit"
        /\ status = "exited" => exit_code = 1

C9_Witness ==
    /\ status = "exited"
    /\ parse_done
    /\ config.soc_manifest_path = "NULL"
    /\ \A f \in RequiredPaths \ {"soc_manifest_path"} : config[f] # "NULL"
    /\ exit_code = 1

FreeRunPcs == LoopPcs \cup {"fr_enter", "fr_malloc", "fr_free", "erm_check",
                            "erm_tcgetattr", "erm_tcsetattr", "erm_set"}

\* The engine reported debug mode: main is in the debug branch or past it.
GdbMode == MainPc \in {"gdb_port", "gdb_run"} \/ gdb_result # "none"

\* C11: in debug mode emulator_run_gdb_server is called exactly once,
\* emulator_step is never called, free_run and raw mode are never entered,
\* and main returns 0 whether the debug session succeeded or failed.
C11_DebugMode ==
    /\ calls["run_gdb_server"] <= 1
    /\ gdb_result # "none" => calls["run_gdb_server"] = 1
    /\ GdbMode =>
          /\ calls["step"] = 0
          /\ MainPc \notin FreeRunPcs
          /\ uart_buffer = "unset"
          /\ raw_periods = 0
          /\ terminal_raw_mode = 0
          /\ termios = "cooked"
    /\ (GdbMode /\ exit_info.main # "none") =>
          exit_info.main = "main_return" /\ exit_code = IF exit_info.caller = "none" THEN 0 ELSE 1

\* A failed debug session, followed by the normal teardown and exit code 0.
C11_Witness ==
    /\ status = "exited"
    /\ gdb_result = "Error"
    /\ calls["run_gdb_server"] = 1
    /\ destroy_count = 1
    /\ free_count = 1
    /\ exit_code = 0

\* The statements of main after free_run or the debug session returned.
TeardownPcs == {"final_drain", "cleanup", "destroy", "free_memory",
                "main_return", "exit_handlers", "exit_final"}

C13_AllocFailureExitsOne ==
    (status = "exited" /\ (exit_info.main = "aligned_alloc" \/ uart_buffer = "null")) =>
        exit_code = 1

InitFailed == MainPc = "init_fail_free" \/ exit_info.main = "init_fail_free"
I3cFailed == MainPc \in {"i3c_fail_destroy", "i3c_fail_free"} \/ exit_info.main = "i3c_fail_free"
NoDispatch ==
    /\ calls["is_gdb_mode"] = 0
    /\ calls["get_gdb_port"] = 0
    /\ calls["run_gdb_server"] = 0
    /\ calls["step"] = 0

\* C14: a failed emulator_init frees the memory once, never destroys and
\* exits with 1; emulator_start_i3c_controller is called iff an I3C port was
\* given, once, on the initialized engine; when it fails the engine is
\* destroyed once, then the memory is freed once, the exit code is 1; in both
\* cases the mode query, the debug server and emulator_step are never called.
C14_FatalAfterAllocation ==
    /\ InitFailed =>
          /\ calls["init"] = 1
          /\ emu = "uninit"
          /\ destroy_count = 0
          /\ calls["start_i3c_controller"] = 0
          /\ NoDispatch
          /\ free_count = IF exit_info.main = "init_fail_free" THEN 1 ELSE 0
          /\ exit_info.main # "none" => exit_code = 1
    /\ I3cFailed =>
          /\ config.i3c_port # 0
          /\ calls["start_i3c_controller"] = 1
          /\ NoDispatch
          /\ destroy_count = IF MainPc = "i3c_fail_destroy" THEN 0 ELSE 1
          /\ free_count = IF exit_info.main = "i3c_fail_free" THEN 1 ELSE 0
          /\ memory = "freed" => emu = "destroyed"
          /\ exit_info.main # "none" => exit_code = 1
    /\ calls["start_i3c_controller"] <= 1
    /\ calls["start_i3c_controller"] = 1 => config.i3c_port # 0 /\ calls["init"] = 1
    /\ last_call.op = "start_i3c_controller" => last_call.emu = "ready"
    /\ calls["is_gdb_mode"] = 1 =>
          (calls["start_i3c_controller"] = 1 <=> config.i3c_port # 0)

\* The I3C controller failed to start: destroy, free, exit code 1.
C14_Witness ==
    /\ status = "exited"
    /\ exit_info.main = "i3c_fail_free"
    /\ exit_info.caller = "none"
    /\ destroy_count = 1
    /\ free_count = 1
    /\ exit_code = 1

\* The number that a string of digits denotes in a base.
RECURSIVE Denotes(_, _)
Denotes(digits, base) ==
    IF digits = <<>> THEN 0
    ELSE Denotes(SubSeq(digits, 1, Len(digits) - 1), base) * base
         + DigitValue(digits[Len(digits)])

AllDigits(s, base) == s # <<>> /\ \A i \in 1..Len(s) : DigitValue(s[i]) < base
BeginsWith0x(s) == Len(s) >= 2 /\ s[1] = "0" /\ s[2] \in {"x", "X"}
Remainder(s) == SubSeq(s, 3, Len(s))

\* The strings whose value is below 2^31, where Denotes can be evaluated.
Evaluable(s) ==
    IF BeginsWith0x(s)
    THEN Len(s) <= 9 \/ (Len(s) = 10 /\ DigitValue(s[3]) <= 7)
    ELSE Len(s) <= 9

\* C15: after a memory-layout override was parsed, the stored value is the
\* base-16 value of what follows 0x or 0X when the string begins so and the
\* rest are hexadecimal digits, and the base-10 value of a string of decimal
\* digits.
C15_HexOrDecimal ==
    (optc \in OverrideFields /\ Evaluable(optarg)) =>
        /\ (BeginsWith0x(optarg) /\ AllDigits(Remainder(optarg), 16)) =>
              config[optc] = U32(Denotes(Remainder(optarg), 16))
        /\ AllDigits(optarg, 10) => config[optc] = U32(Denotes(optarg, 10))

\* --rom-offset 0x40000000 --rom-size 1000 was parsed.
C15_Witness ==
    /\ parse_done
    /\ optarg = <<"1", "0", "0", "0">>
    /\ config.rom_offset = U32(1073741824)
    /\ config.rom_size = U32(1000)

\* A string with no digit, or with a digit invalid for the base its prefix
\* chooses.
Malformed(s) ==
    IF BeginsWith0x(s) THEN ~AllDigits(Remainder(s), 16) ELSE ~AllDigits(s, 10)

\* C16: a malformed memory-layout override ends main with exit code 1 in the
\* option loop, before any allocation, and stores no value.
C16_InvalidDigitsRejected ==
    (optc \in OverrideFields /\ Malformed(optarg)) =>
        /\ exit_info.main = "getopt"
        /\ exit_code = 1
        /\ config[optc] = NoOverride
        /\ memory = "null"

Dots(s) == {i \in 1..Len(s) : s[i] = "."}
FirstDot(s) == CHOOSE i \in Dots(s) : \A j \in Dots(s) : i <= j
LastDot(s) == CHOOSE i \in Dots(s) : \A j \in Dots(s) : j <= i

\* Three non-empty strings of decimal digits separated by two dots.
WellFormedRevision(s) ==
    /\ Cardinality(Dots(s)) = 2
    /\ \A i \in (1..Len(s)) \ Dots(s) : DigitValue(s[i]) < 10
    /\ FirstDot(s) > 1
    /\ LastDot(s) > FirstDot(s) + 1
    /\ LastDot(s) < Len(s)

\* C17: a --hw-revision value is accepted iff it is well formed; a rejected
\* one ends main with exit code 1 in the option loop, before any allocation;
\* an accepted one sets major, minor and patch to its three numbers.
C17_HwRevisionStrict ==
    optc = "hw_revision" =>
        /\ exit_info.main = "none" <=> WellFormedRevision(optarg)
        /\ exit_info.main # "none" =>
              exit_info.main = "getopt" /\ exit_code = 1 /\ memory = "null"
        /\ WellFormedRevision(optarg) =>
              /\ config.hw_revision_major =
                    U32(Denotes(SubSeq(optarg, 1, FirstDot(optarg) - 1), 10))
              /\ config.hw_revision_minor =
                    U32(Denotes(SubSeq(optarg, FirstDot(optarg) + 1, LastDot(optarg) - 1), 10))
              /\ config.hw_revision_patch =
                    U32(Denotes(SubSeq(optarg, LastDot(optarg) + 1, Len(optarg)), 10))

\* Main returned from the option loop and nothing after the loop has run.
StoppedInOptionLoop ==
    /\ exit_info.main = "getopt"
    /\ MainPc \in {"exit_handlers", "exit_final"}
    /\ ~parse_done
    /\ handlers = {}
    /\ atexit_state = "none"
    /\ \A op \in EngineOps : calls[op] = 0
    /\ memory = "null"

\* C18 (original): after getopt_long reported an unrecognized option or a
\* missing value main returns 1 from the option loop, with no validation, no
\* handler installed and no engine call, and the usage text is printed.
C18_UnrecognizedFlag ==
    optc = "?" => StoppedInOptionLoop /\ exit_code = 1 /\ watch.usage

\* C18 (as amended): the same, except that the error message of getopt_long
\* is the only output: print_usage is not called.
C18_ErrorWithoutUsage ==
    optc = "?" => StoppedInOptionLoop /\ exit_code = 1 /\ ~watch.usage

\* An unrecognized option after the five required paths were given.
C18_Witness ==
    /\ status = "exited"
    /\ optc = "?"
    /\ \A f \in RequiredPaths : config[f] # "NULL"
    /\ exit_code = 1

\* C19: after -h or -V main returns 0 from the option loop, with no
\* validation (whatever the required paths), no handler installed and no
\* engine call.
C19_HelpVersion ==
    optc \in {"h", "V"} => StoppedInOptionLoop /\ exit_code = 0

\* --help alone: every required path is missing and the exit code is 0.
C19_Witness ==
    /\ status = "exited"
    /\ optc = "h"
    /\ watch.usage
    /\ \A f \in RequiredPaths : config[f] = "NULL"
    /\ exit_code = 0

\* The calls of the log that have returned, and the state each returned in.
Returned == {i \in 1..Len(call_log) : i < Len(call_log) \/ At("caller")}
After(i) == IF i < Len(call_log) THEN call_log[i + 1].before ELSE TtyState

\* C20: an enable_raw_mode call that directly follows an enable_raw_mode call
\* leaves the terminal mode, the captured original mode and the raw flag as
\* the first call left them (when tcsetattr answers the second call as it
\* answered the first), and the raw mode is never captured as the original;
\* a disable_raw_mode call made with the raw flag clear changes nothing.
C20_RawModeIdempotent ==
    /\ \A i \in Returned :
          (/\ i > 1
           /\ call_log[i].fn = "enable_raw_mode"
           /\ call_log[i - 1].fn = "enable_raw_mode"
           /\ \/ call_log[i].before.terminal_raw_mode = 1
              \/ After(i).terminal_raw_mode = call_log[i].before.terminal_raw_mode)
          => After(i) = call_log[i].before
    /\ \A i \in Returned :
          (call_log[i].fn = "disable_raw_mode" /\ call_log[i].before.terminal_raw_mode = 0)
          => After(i) = call_log[i].before
    /\ original_termios # "raw"

\* disable, then enable twice with the terminal raw after the first.
C20_Witness ==
    /\ At("caller")
    /\ Len(call_log) = 3
    /\ call_log[1].fn = "disable_raw_mode"
    /\ call_log[2].fn = "enable_raw_mode"
    /\ call_log[3].fn = "enable_raw_mode"
    /\ call_log[3].before.terminal_raw_mode = 1
    /\ termios = "raw"
    /\ original_termios = "cooked"

C22_NoStdinUart == config.stdin_uart = 0 => calls["send_uart_char"] = 0

\* C23: once emulator_step has returned Break, ExitSuccess or ExitFailure the
\* loop makes no further step, the terminal is restored, the UART buffer is
\* released exactly once and the stop reason is returned to the caller; a step
\* that returns Continue leaves the loop running.
StoppedByAction == action \in StopActions
FreeRunReturned == trace.uart_frees > 0
MainInFreeRun ==
    MainPc \in FreeRunPcs \/ stack[1].ret \in {"fr_malloc", "fr_free", "final_drain"}
C23_NoFurtherStep ==
    StoppedByAction =>
        /\ trace.late = 0
        /\ MainPc \notin {"fr_loop", "fr_read", "fr_rx_ready", "fr_send", "fr_step"}
C23_RestoredAndReleased ==
    /\ trace.uart_frees <= 1
    /\ (StoppedByAction /\ MainPc = "fr_free") =>
          (terminal_raw_mode = 0 /\ termios = "cooked" /\ uart_buffer = "allocated")
    /\ (StoppedByAction /\ FreeRunReturned) =>
          /\ uart_buffer = "freed"
          /\ terminal_raw_mode = 0
          /\ termios = "cooked"
          /\ ~MainInFreeRun
C23_ContinueKeepsRunning ==
    (action = "Continue" /\ ~trace.ctrl_c) => (MainPc \in LoopPcs /\ ~FreeRunReturned)
C23_StopActionEndsLoop ==
    /\ C23_NoFurtherStep
    /\ C23_RestoredAndReleased
    /\ C23_ContinueKeepsRunning
    /\ (StoppedByAction /\ FreeRunReturned) => FreeRunResult = action

Iter == trace.iter
EventsOf(ev) == {i \in 1..Len(Iter) : Iter[i].ev = ev}
Has(ev) == EventsOf(ev) # {}
SendsInOrder ==
    /\ Cardinality(EventsOf("read")) <= 1
    /\ Cardinality(EventsOf("send")) <= 1
    /\ \A i \in EventsOf("send") :
          /\ i = 3
          /\ Iter[1].ev = "read"
          /\ Iter[1].arg \notin {0, CtrlC}
          /\ Iter[2] = Event("rx_ready", 1)
          /\ Iter[3].arg = Normalize(Iter[1].arg)
          /\ \A j \in EventsOf("step") : i < j
    /\ \A i \in EventsOf("rx_ready") :
          /\ i = 2
          /\ Iter[1].ev = "read"
          /\ Iter[1].arg \notin {0, CtrlC}
          /\ (Iter[i].arg = 1 /\ Len(Iter) > i) => Iter[i + 1].ev = "send"
          /\ Iter[i].arg = 0 => ~Has("send")
    /\ \A i \in EventsOf("read") :
          (Iter[i].arg \notin {0, CtrlC} /\ Len(Iter) > i) => Iter[i + 1].ev = "rx_ready"
BeforeStepPcs == {"fr_loop", "fr_read", "fr_rx_ready", "fr_send", "fr_step"}
C26_DrainBetweenSteps ==
    /\ MainPc \in BeforeStepPcs => (~trace.undrained /\ ~Has("step"))
    /\ trace.undrained => (MainPc = "fr_drain" /\ Iter[Len(Iter)].ev = "step")
    /\ Iter # <<>> => Cardinality(EventsOf("step")) <= 1
    /\ MainPc = "fr_switch" =>
          \E i \in EventsOf("step") :
              /\ Len(Iter) > i
              /\ Iter[i + 1].ev = "drain"
              /\ IF Iter[i + 1].arg > 0
                 THEN Len(Iter) = i + 2 /\ Iter[i + 2] = Event("flush", Iter[i + 1].arg)
                 ELSE Len(Iter) = i + 1
    /\ \A i \in EventsOf("flush") : i > 1 /\ Iter[i - 1] = Event("drain", Iter[i].arg)

C26_Witness ==
    /\ MainPc = "fr_switch"
    /\ action = "Continue"
    /\ calls["step"] = 2
    /\ calls["get_uart_output_streaming"] = 2
    /\ Has("flush")

\* C27: within an iteration of the loop the order is console poll, then the
\* UART drain, then exactly one step: a drain call precedes the very first
\* emulator_step, and after a step that returns a stop action the loop
\* returns without another drain.
C27_PollDrainStep ==
    /\ \A i \in EventsOf("step") : \A j \in EventsOf("drain") : j < i
    /\ (MainPc = "fr_step" /\ calls["step"] = 0) =>
          calls["get_uart_output_streaming"] >= 1
    /\ (StoppedByAction /\ MainPc = "fr_switch") => Iter[Len(Iter)].ev = "step"

\* C27, as the code has it: the order is console poll (in the iterations whose
\* step count is a multiple of 100), then exactly one step, then the drain.
\* No drain precedes the first step, and the output of a step that returns a
\* stop action is drained in the loop before free_run returns.
EventOrder == <<"read", "rx_ready", "send", "step", "drain", "flush">>
Position(ev) == CHOOSE k \in 1..Len(EventOrder) : EventOrder[k] = ev
C27_PollStepDrain ==
    /\ \A i \in 1..(Len(Iter) - 1) : Position(Iter[i].ev) < Position(Iter[i + 1].ev)
    /\ MainPc \in {"fr_step", "fr_drain", "fr_switch"} =>
          IF PollsConsole(step_count)
          THEN Iter # <<>> /\ Iter[1].ev = "read"
          ELSE ~Has("read")
    /\ MainPc = "fr_switch" =>
          /\ Cardinality(EventsOf("step")) = 1
          /\ Cardinality(EventsOf("drain")) = 1
    /\ (MainPc = "fr_step" /\ calls["step"] = 0) =>
          calls["get_uart_output_streaming"] = 0
    /\ calls["get_uart_output_streaming"] >= calls["step"] - (IF trace.undrained THEN 1 ELSE 0)
    /\ (StoppedByAction /\ (MainPc = "fr_free" \/ FreeRunReturned)) => ~trace.undrained

C27_Witness ==
    /\ MainPc = "fr_switch"
    /\ StoppedByAction
    /\ calls["step"] = 1
    /\ Len(Iter) = 4
    /\ Iter[1] = Event("read", 0)
    /\ Iter[2].ev = "step"
    /\ Iter[3] = Event("drain", 1)

\* C28: on every execution that reaches the mode dispatch and is not ended by
\* a signal, main makes exactly one final UART drain call after free_run or
\* the debug-server call has returned, before emulator_destroy and before the
\* engine memory is freed; also after Ctrl-C and after a failed UART buffer
\* allocation.
Dispatched == calls["is_gdb_mode"] >= 1
PastFinalDrain ==
    \/ MainPc \in {"cleanup", "destroy", "free_memory", "main_return"}
    \/ stack[1].ret = "destroy"
    \/ exit_info.main = "main_return"
C28_OneFinalDrain ==
    /\ trace.final_drains <= 1
    /\ trace.final_drains = 1 => Dispatched
    /\ PastFinalDrain => trace.final_drains = 1
    /\ (Dispatched /\ trace.final_drains = 0) =>
          /\ destroy_count = 0
          /\ free_count = 0
          /\ emu = "ready"
          /\ memory = "allocated"
    /\ MainPc = "final_drain" =>
          /\ trace.final_drains = 0
          /\ ~trace.undrained
          /\ gdb_result # "none" \/ uart_buffer \in {"null", "freed"}
    /\ (Dispatched /\ status = "exited" /\ exit_info.caller = "none") =>
          /\ trace.final_drains = 1
          /\ destroy_count = 1
          /\ free_count = 1

C28_Witness ==
    /\ status = "exited"
    /\ exit_info.caller = "none"
    /\ trace.ctrl_c
    /\ trace.final_drains = 1
    /\ destroy_count = 1
    /\ free_count = 1
    /\ sig_count = 0

====
